---- MODULE Spec2Model ----
(***************************************************************************)
(* The Task lifecycle of cosmos/models/Task.py: the status property        *)
(* (set_status), the status-change dispatcher task_status_changed with     *)
(* its retry policy and Stage aggregation, and the graph traversal         *)
(* Task.successors.                                                        *)
(***************************************************************************)
EXTENDS Integers, Sequences, FiniteSets, TLC

\* ------------------------------------------------------------------ bounds

\* Number of Tasks in the Stage.
NumTasks == 2
\* Largest Execution.max_attempts the model draws.
MaxAttempts == 3

\* Number of Tasks in the task graph, and the most edges it holds.
NumNodes == 4
MaxEdges == 3

Tasks == 1 .. NumTasks
\* Every Task may have a Stage of its own.
Stages == 1 .. NumTasks
Nodes == 1 .. NumNodes

\* ----------------------------------------------------------- program values

TaskStatus == {"no_attempt", "waiting", "submitted", "successful", "failed"}
StageStatus == {"no_attempt", "running", "successful", "failed"}

\* A DateTime column that was never assigned, and the value func.now().
None == "None"
func_now == "now"

\* The timeout handed to wait_for_file by the dispatcher.
StderrWait == 60
\* The timeout handed to wait_for_file by Task.profile.
ProfileWait == 60

\* The profile_fields of a Task that the model follows.
ProfileFields == {"exit_status", "wall_time"}

\* A JSON object is a set of <<key, value>> pairs, one per key; a file holds
\* an object or text that json.load rejects.  An optional value is a sequence
\* of length 0 (None, or no file) or 1.
Reports == {{<<"exit_status", 0>>, <<"wall_time", 1>>}, {<<"exit_status", 1>>}}
Contents == [ok : {TRUE}, json : Reports] \cup {[ok |-> FALSE, json |-> {}]}

VARIABLES
    status,        \* Task._status
    attempt,       \* Task.attempt
    successful,    \* Task.successful
    started_on,    \* Task.started_on
    submitted_on,  \* Task.submitted_on
    finished_on,   \* Task.finished_on
    must_succeed,  \* Task.must_succeed
    NOOP,          \* Task.NOOP
    max_attempts,  \* Execution.max_attempts
    stage,         \* Task.stage: the Stage that owns the Task
    stage_status,  \* Stage.status
    n_failed,      \* per Task: how often the dispatcher ran its failed branch
    call,          \* what the last assignment to Task.status did (see NoCall)
    task_edge,     \* the task_edge table: <<parent, child>> rows
    bfs,           \* the traversal of a running successors() call
    returned,      \* what the last two successors() calls returned
    cache_profile, \* Task._cache_profile
    profile_json,  \* per Task and attempt: the profile report on the filesystem
    profile_attrs, \* per Task: the profile_fields columns
    profile_call   \* what the last read of Task.profile did (see NoRead)

taskvars == <<status, attempt, successful, started_on, submitted_on,
              finished_on, must_succeed, NOOP, max_attempts, stage,
              stage_status, n_failed, call>>
graphvars == <<task_edge, bfs, returned>>
profilevars == <<cache_profile, profile_json, profile_attrs, profile_call>>
vars == <<taskvars, graphvars, profilevars>>

\* The observable trace of one assignment to Task.status: the dispatcher runs
\* (and their deepest nesting), the log lines, the wait_for_file calls, and
\* whether an exception reached the caller.
NoCall == [dispatched |-> 0, depth |-> 0, log |-> <<>>, waits |-> <<>>,
           raised |-> FALSE]

\* The mutable objects a dispatcher run reads and writes.
World == [status |-> status, attempt |-> attempt, successful |-> successful,
          started_on |-> started_on, submitted_on |-> submitted_on,
          finished_on |-> finished_on, stage_status |-> stage_status,
          n_failed |-> n_failed, call |-> NoCall, nest |-> 0]

\* ------------------------------------------------------------- artifacts

\* logplus(filename): "{prefix}_attempt{attempt}{suffix}" under log_dir.
logplus(prefix, suffix, att) == <<prefix, "_attempt", att, suffix>>

output_profile_path(w, t) == logplus("profile", ".json", w.attempt[t])
output_command_script_path(w, t) == logplus("command", ".bash", w.attempt[t])
output_stderr_path(w, t) == logplus("stderr", ".txt", w.attempt[t])
output_stdout_path(w, t) == logplus("stdout", ".txt", w.attempt[t])

\* task.log.<level>(...): one line appended to the Execution's log.
log_line(w, level, msg, t) ==
    [w EXCEPT !.call.log =
        Append(@, [level |-> level, msg |-> msg, task |-> t,
                   attempt |-> w.attempt[t]])]

\* task.log.warn(task_failed_printout.format(task)): the command, stdout and
\* stderr of the attempt the Task is on when the line is formatted.
log_printout(w, t) ==
    [w EXCEPT !.call.log =
        Append(@, [level |-> "warn", msg |-> "task_failed_printout", task |-> t,
                   attempt |-> w.attempt[t],
                   command |-> output_command_script_path(w, t),
                   stdout |-> output_stdout_path(w, t),
                   stderr |-> output_stderr_path(w, t)])]

\* wait_for_file(execution, path, timeout): polls until the file exists or the
\* timeout passes; reports whether it exists and raises nothing on a timeout.
wait_for_file(exists, path, timeout) ==
    [found |-> exists, raised |-> FALSE,
     waited |-> [path |-> path, timeout |-> timeout, found |-> exists]]

\* ------------------------------------------------------------ dispatcher

RECURSIVE set_status(_, _, _, _)

\* if task.status == TaskStatus.waiting
branch_waiting(w, t) == [w EXCEPT !.started_on[t] = func_now]

\* elif task.status == TaskStatus.submitted
branch_submitted(w, t) ==
    LET w1 == IF ~NOOP[t] THEN log_line(w, "info", "submitted", t) ELSE w
    IN  [w1 EXCEPT !.submitted_on[t] = func_now,
                   !.stage_status[stage[t]] = "running"]

\* Mutant: a tolerated failure fails the Stage all the same.
branch_tolerated_escalates(w, t) ==
    LET w1 == log_line(w, "warn", "failed_but_must_succeed_false", t)
        w2 == log_printout(w1, t)
    IN  [w2 EXCEPT !.finished_on[t] = func_now,
                   !.stage_status[stage[t]] = "failed"]

\* failed, not task.must_succeed
branch_tolerated(w, t) ==
    LET w1 == log_line(w, "warn", "failed_but_must_succeed_false", t)
        w2 == log_printout(w1, t)
    IN  [w2 EXCEPT !.finished_on[t] = func_now]

\* Mutant: the retry branch records finished_on like the other two.
branch_retry_finishes(w, t, exists) ==
    LET w1 == log_printout(w, t)
        w2 == [w1 EXCEPT !.attempt[t] = @ + 1, !.finished_on[t] = func_now]
    IN  set_status(w2, t, "no_attempt", exists)

\* Mutant: the retry branch writes _status itself, past the setter.
branch_retry_direct(w, t, exists) ==
    LET w1 == log_printout(w, t)
    IN  [w1 EXCEPT !.attempt[t] = @ + 1, !.status[t] = "no_attempt"]

\* Mutant: the retry branch adds to attempt before it reports the failure.
branch_retry_counts_first(w, t, exists) ==
    LET w1 == [w EXCEPT !.attempt[t] = @ + 1]
        w2 == log_printout(w1, t)
    IN  set_status(w2, t, "no_attempt", exists)

\* Mutant: the attempt is counted and the Task is not put back to no_attempt.
branch_retry_stays_failed(w, t, exists) ==
    LET w1 == log_printout(w, t)
    IN  [w1 EXCEPT !.attempt[t] = @ + 1]

\* failed, task.attempt < task.execution.max_attempts
branch_retry(w, t, exists) ==
    LET w1 == log_printout(w, t)
        w2 == [w1 EXCEPT !.attempt[t] = @ + 1]
    IN  set_status(w2, t, "no_attempt", exists)

\* Mutant: the Task is finalized only when its stderr file was found.
branch_final_needs_stderr(w, t, exists) ==
    LET r  == wait_for_file(exists, output_stderr_path(w, t), StderrWait)
        w1 == [w EXCEPT !.call.waits = Append(@, r.waited)]
    IN  IF r.raised \/ ~r.found
        THEN w1
        ELSE LET w2 == log_printout(w1, t)
                 w3 == log_line(w2, "error", "failed_too_many_times", t)
             IN  [w3 EXCEPT !.finished_on[t] = func_now,
                            !.stage_status[stage[t]] = "failed"]

\* failed, attempts exhausted
branch_final(w, t, exists) ==
    LET r  == wait_for_file(exists, output_stderr_path(w, t), StderrWait)
        w1 == [w EXCEPT !.call.waits = Append(@, r.waited)]
    IN  IF r.raised
        THEN [w1 EXCEPT !.call.raised = TRUE]
        ELSE LET w2 == log_printout(w1, t)
                 w3 == log_line(w2, "error", "failed_too_many_times", t)
             IN  [w3 EXCEPT !.finished_on[t] = func_now,
                            !.stage_status[stage[t]] = "failed"]

\* Mutant: the retry test is attempt <= max_attempts.
branch_failed_off_by_one(w, t, exists) ==
    LET w0 == [w EXCEPT !.n_failed[t] = @ + 1]
    IN  IF ~must_succeed[t]
        THEN branch_tolerated(w0, t)
        ELSE LET w1 == log_line(w0, "warn", "attempt_failed", t)
             IN  IF w1.attempt[t] <= max_attempts
                 THEN branch_retry(w1, t, exists)
                 ELSE branch_final(w1, t, exists)

\* elif task.status == TaskStatus.failed
branch_failed(w, t, exists) ==
    LET w0 == [w EXCEPT !.n_failed[t] = @ + 1]
    IN  IF ~must_succeed[t]
        THEN branch_tolerated(w0, t)
        ELSE LET w1 == log_line(w0, "warn", "attempt_failed", t)
             IN  IF w1.attempt[t] < max_attempts
                 THEN branch_retry(w1, t, exists)
                 ELSE branch_final(w1, t, exists)

\* stage.tasks: the backref of Task.stage.
stage_tasks(s) == {u \in Tasks : stage[u] = s}

\* all(t.successful or not t.must_succeed for t in task.stage.tasks)
stage_tasks_ok(w, s) ==
    \A u \in stage_tasks(s) : w.successful[u] \/ ~must_succeed[u]

\* Mutant: the Stage is checked before the Task's own flag is set.
branch_successful_checks_first(w, t) ==
    LET w1 == [w EXCEPT !.successful[t] = TRUE, !.finished_on[t] = func_now]
    IN  IF stage_tasks_ok(w, stage[t])
        THEN [w1 EXCEPT !.stage_status[stage[t]] = "successful"]
        ELSE w1

\* Mutant: the Task's successful flag is left as it is.
branch_successful_forgets_flag(w, t) ==
    LET w1 == [w EXCEPT !.finished_on[t] = func_now]
    IN  IF stage_tasks_ok(w1, stage[t])
        THEN [w1 EXCEPT !.stage_status[stage[t]] = "successful"]
        ELSE w1

\* elif task.status == TaskStatus.successful
branch_successful(w, t) ==
    LET w1 == [w EXCEPT !.successful[t] = TRUE, !.finished_on[t] = func_now]
    IN  IF stage_tasks_ok(w1, stage[t])
        THEN [w1 EXCEPT !.stage_status[stage[t]] = "successful"]
        ELSE w1

\* The receiver of signal_task_status_change.
task_status_changed(w, t, exists) ==
    LET w0 == [w EXCEPT !.call.dispatched = @ + 1,
                        !.nest = @ + 1,
                        !.call.depth = IF w.nest + 1 > @ THEN w.nest + 1 ELSE @]
        w1 == IF w0.status[t] = "successful" /\ ~NOOP[t]
              THEN log_line(w0, "info", "successful", t)
              ELSE w0
        w2 == CASE w1.status[t] = "waiting" -> branch_waiting(w1, t)
                [] w1.status[t] = "submitted" -> branch_submitted(w1, t)
                [] w1.status[t] = "failed" -> branch_failed(w1, t, exists)
                [] w1.status[t] = "successful" -> branch_successful(w1, t)
                [] OTHER -> w1
    IN  [w2 EXCEPT !.nest = @ - 1]

\* Mutant: the setter signals also when the value is the one the Task has.
set_status_unguarded(w, t, value, exists) ==
    task_status_changed([w EXCEPT !.status[t] = value], t, exists)

\* Task.status's setter.
set_status(w, t, value, exists) ==
    IF w.status[t] # value
    THEN task_status_changed([w EXCEPT !.status[t] = value], t, exists)
    ELSE w

\* ---------------------------------------------------------------- actions

\* task.status = value, run to completion.  exists: whether the stderr file
\* shows up within the bound, should the dispatcher wait for it.
SetStatus(t, value) ==
    \E exists \in BOOLEAN :
        LET w == set_status(World, t, value, exists)
        IN  /\ status' = w.status
            /\ attempt' = w.attempt
            /\ successful' = w.successful
            /\ started_on' = w.started_on
            /\ submitted_on' = w.submitted_on
            /\ finished_on' = w.finished_on
            /\ stage_status' = w.stage_status
            /\ n_failed' = w.n_failed
            /\ call' = w.call
            /\ UNCHANGED <<must_succeed, NOOP, max_attempts, stage, graphvars,
                           profilevars>>

\* The scheduler loop: a Task without an attempt is queued, ...
Enqueue(t) == status[t] = "no_attempt" /\ SetStatus(t, "waiting")

\* ... handed to the backend, ...
Submit(t) == status[t] = "waiting" /\ SetStatus(t, "submitted")

\* ... and its outcome is reported by the monitor.
ReportSuccessful(t) == status[t] = "submitted" /\ SetStatus(t, "successful")

ReportFailed(t) == status[t] = "submitted" /\ SetStatus(t, "failed")

\* The status a Task already has is assigned again.
Reassign(t) == SetStatus(t, status[t])

\* Any status is assigned to a Task; a Task is failed at most
\* max_attempts + 1 times, which keeps n_failed finite.
Assign(t, value) ==
    /\ value = "failed" => n_failed[t] <= max_attempts
    /\ SetStatus(t, value)

\* ------------------------------------------------------------ task graph

\* self.ex.task_graph(): the directed graph of the Tasks and their
\* parent -> child edges.
task_graph == [nodes |-> Nodes, edges |-> task_edge]

\* G.neighbors_iter(n): the children of n.
neighbors(G, n) == {c \in G.nodes : <<n, c>> \in G.edges}

Range(f) == {f[i] : i \in DOMAIN f}

\* No successors() call is running.
Idle == [pc |-> "idle"]

\* Mutant: the source is not marked visited.
bfs_start_unvisited(G, source) ==
    [pc |-> "run", source |-> source, visited |-> {},
     queue |-> <<[parent |-> source, children |-> neighbors(G, source)]>>,
     d |-> <<>>]

\* bfs_edges(G, source) up to its loop: visited = set([source]),
\* queue = deque([(source, neighbors(source))]); bfs_successors' d is empty.
bfs_start(G, source) ==
    [pc |-> "run", source |-> source, visited |-> {source},
     queue |-> <<[parent |-> source, children |-> neighbors(G, source)]>>,
     d |-> <<>>]

\* d[s].append(t) on a defaultdict(list).
dict_append(d, s, t) ==
    IF s \in DOMAIN d THEN [d EXCEPT ![s] = Append(@, t)] ELSE d @@ (s :> <<t>>)

\* One turn of bfs_edges' loop with the head's iterator exhausted.
bfs_pop(b) == [b EXCEPT !.queue = Tail(@)]

\* Mutant: a child is yielded and queued whether or not it was visited.
bfs_visit_unchecked(G, b, child) ==
    LET head == b.queue[1]
        rest == [b EXCEPT !.queue[1].children = @ \ {child}]
    IN  [rest EXCEPT !.d = dict_append(@, head.parent, child),
                     !.visited = @ \cup {child},
                     !.queue = Append(@, [parent |-> child,
                                          children |-> neighbors(G, child)])]

\* One turn of bfs_edges' loop in which the head's iterator yields child.
bfs_visit(G, b, child) ==
    LET head == b.queue[1]
        rest == [b EXCEPT !.queue[1].children = @ \ {child}]
    IN  IF child \notin b.visited
        THEN [rest EXCEPT !.d = dict_append(@, head.parent, child),
                          !.visited = @ \cup {child},
                          !.queue = Append(@, [parent |-> child,
                                               children |-> neighbors(G, child)])]
        ELSE rest

\* set(it.chain(*d.values()))
chain_set(d) == UNION {Range(d[k]) : k \in DOMAIN d}

\* Task.successors() is called on t; a run calls it on one Task only.
Successors(t) ==
    /\ bfs.pc = "idle"
    /\ returned # <<>> => returned[1].source = t
    /\ bfs' = bfs_start(task_graph, t)
    /\ UNCHANGED <<task_edge, returned, taskvars, profilevars>>

\* The traversal takes one step; the iterator yields the children in any order.
BfsStep ==
    /\ bfs.pc = "run"
    /\ bfs.queue # <<>>
    /\ \/ /\ bfs.queue[1].children = {}
          /\ bfs' = bfs_pop(bfs)
       \/ \E child \in bfs.queue[1].children :
              bfs' = bfs_visit(task_graph, bfs, child)
    /\ UNCHANGED <<task_edge, returned, taskvars, profilevars>>

\* The queue is empty: successors() returns.
Return ==
    /\ bfs.pc = "run"
    /\ bfs.queue = <<>>
    /\ returned' = << [source |-> bfs.source, value |-> chain_set(bfs.d)] >>
                   \o SubSeq(returned, 1, IF Len(returned) > 0 THEN 1 ELSE 0)
    /\ bfs' = Idle
    /\ UNCHANGED <<task_edge, taskvars, profilevars>>

\* ---------------------------------------------------------------- profile

\* The observable trace of one read of Task.profile: who read it ("profile"
\* or "update"), what was returned, the wait_for_file calls, the files
\* opened, the log lines, and whether an exception reached the caller.
NoRead == [op |-> "none", result |-> <<>>, waits |-> <<>>, opened |-> <<>>,
           log |-> <<>>, raised |-> FALSE]

\* Mutant: the NOOP test is missing.
profile_ignores_noop(t) ==
    IF cache_profile[t] = <<>>
    THEN LET path == output_profile_path(World, t)
             file == profile_json[t][attempt[t]]
             r    == wait_for_file(file # <<>>, path, ProfileWait)
         IN  IF r.found
             THEN IF file[1].ok
                  THEN [cache |-> <<file[1].json>>, result |-> <<file[1].json>>,
                        waits |-> <<r.waited>>, opened |-> <<path>>,
                        log |-> <<>>, raised |-> FALSE]
                  ELSE [cache |-> <<>>, result |-> <<>>,
                        waits |-> <<r.waited>>, opened |-> <<path>>,
                        log |-> <<>>, raised |-> TRUE]
             ELSE [cache |-> <<>>, result |-> <<{}>>,
                   waits |-> <<r.waited>>, opened |-> <<>>,
                   log |-> <<[level |-> "warn", msg |-> "does_not_exist",
                              path |-> path]>>,
                   raised |-> FALSE]
    ELSE [cache |-> cache_profile[t], result |-> cache_profile[t],
          waits |-> <<>>, opened |-> <<>>, log |-> <<>>, raised |-> FALSE]

\* Mutant: the parsed report is returned and not kept.
profile_keeps_nothing(t) ==
    IF NOOP[t]
    THEN [cache |-> cache_profile[t], result |-> <<{}>>, waits |-> <<>>,
          opened |-> <<>>, log |-> <<>>, raised |-> FALSE]
    ELSE LET path == output_profile_path(World, t)
             file == profile_json[t][attempt[t]]
             r    == wait_for_file(file # <<>>, path, ProfileWait)
         IN  IF r.found
             THEN IF file[1].ok
                  THEN [cache |-> <<>>, result |-> <<file[1].json>>,
                        waits |-> <<r.waited>>, opened |-> <<path>>,
                        log |-> <<>>, raised |-> FALSE]
                  ELSE [cache |-> <<>>, result |-> <<>>,
                        waits |-> <<r.waited>>, opened |-> <<path>>,
                        log |-> <<>>, raised |-> TRUE]
             ELSE [cache |-> <<>>, result |-> <<{}>>,
                   waits |-> <<r.waited>>, opened |-> <<>>,
                   log |-> <<[level |-> "warn", msg |-> "does_not_exist",
                              path |-> path]>>,
                   raised |-> FALSE]

\* Task.profile: the Task's new _cache_profile and the trace of the read.
profile(t) ==
    IF NOOP[t]
    THEN [cache |-> cache_profile[t], result |-> <<{}>>, waits |-> <<>>,
          opened |-> <<>>, log |-> <<>>, raised |-> FALSE]
    ELSE IF cache_profile[t] = <<>>
    THEN LET path == output_profile_path(World, t)
             file == profile_json[t][attempt[t]]
             r    == wait_for_file(file # <<>>, path, ProfileWait)
         IN  IF r.found
             THEN IF file[1].ok
                  THEN [cache |-> <<file[1].json>>, result |-> <<file[1].json>>,
                        waits |-> <<r.waited>>, opened |-> <<path>>,
                        log |-> <<>>, raised |-> FALSE]
                  ELSE [cache |-> <<>>, result |-> <<>>,
                        waits |-> <<r.waited>>, opened |-> <<path>>,
                        log |-> <<>>, raised |-> TRUE]
             ELSE [cache |-> <<>>, result |-> <<{}>>,
                   waits |-> <<r.waited>>, opened |-> <<>>,
                   log |-> <<[level |-> "warn", msg |-> "does_not_exist",
                              path |-> path]>>,
                   raised |-> FALSE]
    ELSE [cache |-> cache_profile[t], result |-> cache_profile[t],
          waits |-> <<>>, opened |-> <<>>, log |-> <<>>, raised |-> FALSE]

\* for k, v in items: setattr(self, k, v)
setattr_items(attrs, items) ==
    [k \in DOMAIN attrs |->
        IF \E kv \in items : kv[1] = k
        THEN (CHOOSE kv \in items : kv[1] = k)[2]
        ELSE attrs[k]]

\* What one read of t.profile by op leaves in profile_call.
read_trace(op, p) ==
    [op |-> op, result |-> p.result, waits |-> p.waits, opened |-> p.opened,
     log |-> p.log, raised |-> p.raised]

\* task.profile is read.
ReadProfile(t) ==
    LET p == profile(t)
    IN  /\ cache_profile' = [cache_profile EXCEPT ![t] = p.cache]
        /\ profile_call' = read_trace("profile", p)
        /\ UNCHANGED <<profile_json, profile_attrs, taskvars, graphvars>>

\* task.update_from_profile_output()
UpdateFromProfileOutput(t) ==
    LET p == profile(t)
    IN  /\ cache_profile' = [cache_profile EXCEPT ![t] = p.cache]
        /\ profile_call' = read_trace("update", p)
        /\ profile_attrs' =
              IF p.raised THEN profile_attrs
              ELSE [profile_attrs EXCEPT ![t] = setattr_items(@, p.result[1])]
        /\ UNCHANGED <<profile_json, taskvars, graphvars>>

\* The backend writes the profile report of the attempt that t is on, once,
\* while the attempt runs or after it has ended.
WriteProfile(t, content) ==
    /\ status[t] \in {"submitted", "successful", "failed"}
    /\ profile_json[t][attempt[t]] = <<>>
    /\ profile_json' = [profile_json EXCEPT ![t][attempt[t]] = <<content>>]
    /\ UNCHANGED <<cache_profile, profile_attrs, profile_call, taskvars, graphvars>>

\* ----------------------------------------------------------- specifications

\* Tasks as the Column defaults create them, in Stages numbered in the order
\* of their first Task.
TaskInit ==
    /\ status = [t \in Tasks |-> "no_attempt"]
    /\ successful = [t \in Tasks |-> FALSE]
    /\ started_on = [t \in Tasks |-> None]
    /\ submitted_on = [t \in Tasks |-> None]
    /\ finished_on = [t \in Tasks |-> None]
    /\ must_succeed \in [Tasks -> BOOLEAN]
    /\ max_attempts \in 1 .. MaxAttempts
    /\ stage \in [Tasks -> Stages]
    /\ \A t \in Tasks : \A s \in 1 .. stage[t] - 1 : \E u \in 1 .. t - 1 : stage[u] = s
    /\ stage_status = [s \in Stages |-> "no_attempt"]
    /\ n_failed = [t \in Tasks |-> 0]
    /\ call = NoCall

NoGraph == task_edge = {} /\ bfs = Idle /\ returned = <<>>

\* No report written, nothing cached, no profile column set, no read made.
NoProfile ==
    /\ cache_profile = [t \in Tasks |-> <<>>]
    /\ profile_json = [t \in Tasks |-> [a \in 1 .. MaxAttempts + 1 |-> <<>>]]
    /\ profile_attrs = [t \in Tasks |-> [k \in ProfileFields |-> None]]
    /\ profile_call = NoRead

Init ==
    /\ TaskInit
    /\ attempt = [t \in Tasks |-> 1]
    /\ NOOP = [t \in Tasks |-> FALSE]
    /\ NoGraph
    /\ NoProfile

Next ==
    \E t \in Tasks :
        \/ Enqueue(t)
        \/ Submit(t)
        \/ ReportSuccessful(t)
        \/ ReportFailed(t)
        \/ Reassign(t)

\* The Tasks driven in lifecycle order by the scheduler loop.
Spec == Init /\ [][Next]_vars

\* The Tasks of one Stage, the must_succeed ones first (the Tasks of a Stage
\* are interchangeable).
FairInit ==
    /\ Init
    /\ \A t \in Tasks : stage[t] = 1
    /\ \A t \in Tasks : \A u \in 1 .. t - 1 : must_succeed[t] => must_succeed[u]

FairNext ==
    \E t \in Tasks :
        \/ Enqueue(t)
        \/ Submit(t)
        \/ ReportSuccessful(t)
        \/ ReportFailed(t)

\* A fair environment: while some Task is in no_attempt, waiting or
\* submitted, some Task is eventually enqueued, submitted or reported.  An
\* environment that does so for every Task separately is one of these.
FairSpec == FairInit /\ [][FairNext]_vars /\ WF_vars(FairNext)

\* One Task, of any kind and on any attempt, is assigned to; the other Tasks
\* are left alone.
AnyInit ==
    /\ TaskInit
    /\ attempt \in [Tasks -> 1 .. MaxAttempts + 1]
    /\ NOOP \in [Tasks -> BOOLEAN]
    /\ \A u \in Tasks \ {1} : attempt[u] = 1 /\ ~NOOP[u]
    /\ NoGraph
    /\ NoProfile

AnyNext == \E value \in TaskStatus : Assign(1, value)

\* One Task under arbitrary assignments to Task.status.
AnySpec == AnyInit /\ [][AnyNext]_vars

\* Any task graph of at most MaxEdges edges, cyclic ones included, with
\* successors() called on one Task t over and over.
GraphInit ==
    /\ TaskInit
    /\ attempt = [t \in Tasks |-> 1]
    /\ NOOP = [t \in Tasks |-> FALSE]
    /\ \A t \in Tasks : must_succeed[t] /\ stage[t] = 1
    /\ max_attempts = 1
    /\ task_edge \in SUBSET (Nodes \X Nodes)
    /\ Cardinality(task_edge) <= MaxEdges
    /\ bfs = Idle
    /\ returned = <<>>
    /\ NoProfile

GraphNext ==
    \/ \E t \in Nodes : Successors(t)
    \/ BfsStep
    \/ Return

GraphSpec == GraphInit /\ [][GraphNext]_vars

\* A call that was made runs on: the loop of bfs_edges keeps turning, and
\* successors() returns once the loop has ended.
GraphFairSpec == GraphSpec /\ WF_vars(BfsStep) /\ WF_vars(Return)

\* One must_succeed Task, a no-op or not, goes through its attempts while the
\* backend writes its profile reports and the profile is read.
ProfileInit ==
    /\ TaskInit
    /\ attempt = [t \in Tasks |-> 1]
    /\ NOOP \in [Tasks -> BOOLEAN]
    /\ \A u \in Tasks \ {1} : ~NOOP[u]
    /\ \A t \in Tasks : must_succeed[t] /\ stage[t] = 1
    /\ NoGraph
    /\ NoProfile

ProfileNext ==
    \/ Enqueue(1)
    \/ Submit(1)
    \/ ReportSuccessful(1)
    \/ ReportFailed(1)
    \/ \E content \in Contents : WriteProfile(1, content)
    \/ ReadProfile(1)
    \/ UpdateFromProfileOutput(1)

ProfileSpec == ProfileInit /\ [][ProfileNext]_vars

\* ------------------------------------------------------------------ claims

\* The Task fields and Stage statuses a dispatcher run may write.
lifecycle == <<status, attempt, successful, started_on, submitted_on,
               finished_on, stage_status>>

\* C1: assigning a Task the status it already has does not run the
\* dispatcher, logs nothing, and leaves every Task field and every Stage's
\* status as it was.
C1_SameStatusIsNoOp ==
    [][\A v \in TaskStatus :
          (status[1] = v /\ Assign(1, v)) =>
              /\ call'.dispatched = 0
              /\ call'.log = <<>>
              /\ UNCHANGED lifecycle]_vars

\* A finished Task of a failed Stage whose last assignment did nothing.
C1_Witness ==
    /\ call = NoCall
    /\ status[1] = "failed"
    /\ finished_on[1] = func_now
    /\ started_on[1] = func_now
    /\ stage_status[stage[1]] = "failed"

\* successful, or failed for good (tolerated, or attempts exhausted).
Terminal(t) ==
    \/ status[t] = "successful"
    \/ status[t] = "failed" /\ (~must_succeed[t] \/ attempt[t] >= max_attempts)

\* C2 as stated: in every reachable state finished_on is set if and only if
\* the Task is successful or terminally failed.
C2_Original == \A t \in Tasks : finished_on[t] # None <=> Terminal(t)

\* C2 amended: a Task that is successful or terminally failed has finished_on
\* set; finished_on is written only by a transition that ends in successful or
\* terminal failed, never by one to no_attempt or waiting; and once set it
\* stays set, also when the Task is assigned another status afterwards.
C2_FinishedOn ==
    /\ [](\A t \in Tasks : Terminal(t) => finished_on[t] = func_now)
    /\ [][\A t \in Tasks :
             /\ finished_on[t] # None => finished_on'[t] = finished_on[t]
             /\ finished_on'[t] # finished_on[t] =>
                    /\ Terminal(t)'
                    /\ call'.log # <<>> => call'.log[1].task = t
             /\ (status'[t] \in {"no_attempt", "waiting"}
                   /\ status'[t] # status[t]) =>
                    finished_on'[t] = finished_on[t]]_vars

\* A Task that used up a retry and then failed for good.
C2_Witness ==
    /\ status[1] = "failed"
    /\ must_succeed[1]
    /\ n_failed[1] = 2
    /\ attempt[1] = max_attempts
    /\ finished_on[1] = func_now

\* The dispatcher's attempts-exhausted branch ran in the last assignment.
MarkedFailed == \E i \in DOMAIN call.log : call.log[i].msg = "failed_too_many_times"

\* C3: a must_succeed Task that starts on attempt 1 marks its Stage failed at
\* its max_attempts-th transition to failed and at no earlier one; after its
\* k-th transition to failed, k < max_attempts, it is on attempt k + 1 with
\* status no_attempt.
C3_RetryBound ==
    [][\A t \in Tasks :
          (must_succeed[t] /\ ReportFailed(t)) =>
              /\ n_failed'[t] = n_failed[t] + 1
              /\ n_failed'[t] <= max_attempts
              /\ MarkedFailed' <=> n_failed'[t] = max_attempts
              /\ MarkedFailed' => stage_status'[stage[t]] = "failed"
              /\ n_failed'[t] < max_attempts =>
                     /\ attempt'[t] = n_failed'[t] + 1
                     /\ status'[t] = "no_attempt"
                     /\ stage_status' = stage_status]_vars

\* The third failure of a Task with three attempts has failed its Stage.
C3_Witness ==
    /\ max_attempts = 3
    /\ must_succeed[1]
    /\ n_failed[1] = 3
    /\ attempt[1] = 3
    /\ MarkedFailed
    /\ stage_status[stage[1]] = "failed"

\* Every Task of Stage s, which has some, is successful or failed for good.
AllFinished(s) ==
    /\ stage_tasks(s) # {}
    /\ \A t \in stage_tasks(s) : Terminal(t)

\* C4 as stated: once every Task of a Stage has finished, the Stage is
\* successful if and only if each of its Tasks is successful or has
\* must_succeed = false.
C4_Original ==
    \A s \in Stages :
        AllFinished(s) =>
            (stage_status[s] = "successful" <=>
                \A t \in stage_tasks(s) : status[t] = "successful" \/ ~must_succeed[t])

\* The Stage status that ends the interleaving in which, of the Tasks'
\* last transitions, the one that decides the Stage comes last: a final
\* failure if there is one, else a success if there is one.
StatusInOrder(s) ==
    IF \E t \in stage_tasks(s) : must_succeed[t] /\ status[t] = "failed"
    THEN "failed"
    ELSE IF \E t \in stage_tasks(s) : status[t] = "successful"
         THEN "successful"
         ELSE "running"

\* C5 as stated: with the Tasks, their must_succeed flags and the outcome of
\* each attempt fixed, every interleaving of the Tasks' transitions ends in the
\* same Stage status, the one the interleaving of StatusInOrder ends in.
C5_Original ==
    \A s \in Stages : AllFinished(s) => stage_status[s] = StatusInOrder(s)

\* C6 as stated: a Stage that is failed or successful keeps that status
\* through every later transition of its Tasks.
C6_Original ==
    [][\A s \in Stages :
          stage_status[s] \in {"failed", "successful"} =>
              stage_status'[s] = stage_status[s]]_vars

C8_FailThenSucceed ==
    \A t \in Tasks :
        (must_succeed[t] /\ status[t] = "successful") =>
            /\ attempt[t] = n_failed[t] + 1
            /\ n_failed[t] < max_attempts
            /\ successful[t]
            /\ finished_on[t] = func_now
            /\ stage_tasks(stage[t]) = {t} => stage_status[stage[t]] = "successful"

\* max_attempts = 3, two failures, then success on attempt 3, alone in its Stage.
C8_Witness ==
    /\ max_attempts = 3
    /\ must_succeed[1]
    /\ n_failed[1] = 2
    /\ status[1] = "successful"
    /\ attempt[1] = 3
    /\ successful[1]
    /\ stage_tasks(stage[1]) = {1}
    /\ stage_status[stage[1]] = "successful"

\* C9: a transition to failed of a Task with must_succeed = false, whatever
\* its attempt and max_attempts, leaves every Stage's status and the Task's
\* attempt as they were, leaves the Task failed, and records finished_on.
C9_ToleratedFailure ==
    [][(~must_succeed[1] /\ status[1] # "failed" /\ Assign(1, "failed")) =>
          /\ stage_status' = stage_status
          /\ attempt' = attempt
          /\ status'[1] = "failed"
          /\ finished_on'[1] = func_now
          /\ call'.dispatched = 1]_vars

\* A tolerated failure on an attempt below max_attempts, in a running Stage.
C9_Witness ==
    /\ ~must_succeed[1]
    /\ status[1] = "failed"
    /\ finished_on[1] = func_now
    /\ attempt[1] = 2
    /\ max_attempts = 3
    /\ stage_status[stage[1]] = "running"
    /\ call.dispatched = 1

\* The Tasks one parent -> child edge away from a Task of S.
Children(S) == {c \in Nodes : \E p \in S : <<p, c>> \in task_edge}

RECURSIVE Within(_, _)
\* The Tasks between one and n edges away from a Task of S.
Within(S, n) == IF n = 0 THEN {} ELSE Children(S) \cup Within(Children(S), n - 1)

\* The Tasks one or more edges away from t.
Descendants(t) == Within({t}, NumNodes)

\* C10: successors(t) returns the Tasks reachable from t by one or more
\* parent -> child edges, t itself left out; a second call on the same graph
\* returns the same set; and no call changes the graph.
C10_Successors ==
    /\ [](\A i \in DOMAIN returned :
             returned[i].value = Descendants(returned[i].source) \ {returned[i].source})
    /\ [](Len(returned) = 2 => returned[1] = returned[2])
    /\ [][task_edge' = task_edge]_vars

\* Edges A->B, A->C, B->D: two calls on A have returned {B, C, D}.
C10_Witness ==
    /\ task_edge = {<<1, 2>>, <<1, 3>>, <<2, 4>>}
    /\ Len(returned) = 2
    /\ returned[1] = [source |-> 1, value |-> {2, 3, 4}]
    /\ returned[2] = returned[1]

RECURSIVE SumOver(_, _)
\* The sum of f over the finite set S.
SumOver(f, S) ==
    IF S = {} THEN 0
    ELSE LET x == CHOOSE y \in S : TRUE IN f[x] + SumOver(f, S \ {x})

\* What a running traversal still has to do: the queue entries to drop, the
\* children their iterators still hold, and for every Task not yet visited
\* its yield, its queue entry and its children.
Work(b) ==
    Len(b.queue)
    + SumOver([i \in DOMAIN b.queue |-> Cardinality(b.queue[i].children)],
              DOMAIN b.queue)
    + SumOver([n \in Nodes |-> 2 + Cardinality(neighbors(task_graph, n))],
              Nodes \ b.visited)

\* How many Tasks the traversal has yielded so far, repeats counted.
Yielded(b) == SumOver([k \in DOMAIN b.d |-> Len(b.d[k])], DOMAIN b.d)

\* C11: on every graph, cyclic ones included, a successors() call returns:
\* every turn of the loop leaves less work, no Task is yielded or queued
\* twice, and the source is never yielded.
C11_Terminates ==
    /\ (bfs.pc = "run") ~> (bfs.pc = "idle")
    /\ [][BfsStep => Work(bfs') < Work(bfs)]_vars
    /\ [](bfs.pc = "run" =>
            /\ Yielded(bfs) = Cardinality(chain_set(bfs.d))
            /\ bfs.visited = {bfs.source} \cup chain_set(bfs.d)
            /\ bfs.source \notin chain_set(bfs.d)
            /\ \A i, j \in DOMAIN bfs.queue :
                   bfs.queue[i].parent = bfs.queue[j].parent => i = j)

\* A call on a Task of a cycle has returned.
C11_Witness ==
    /\ task_edge = {<<1, 2>>, <<2, 1>>, <<2, 3>>}
    /\ bfs = Idle
    /\ returned # <<>>
    /\ returned[1] = [source |-> 1, value |-> {2, 3}]

\* C13: one transition of a must_succeed Task to failed below max_attempts
\* runs the failed branch once, adds exactly 1 to attempt and makes exactly
\* one nested assignment, to no_attempt, whose dispatcher run assigns nothing
\* further; the Task is then in no_attempt with finished_on and the Stages'
\* statuses as before.
C13_RetryReentry ==
    [][\A t \in Tasks :
          (must_succeed[t] /\ attempt[t] < max_attempts /\ ReportFailed(t)) =>
              /\ n_failed'[t] = n_failed[t] + 1
              /\ attempt'[t] = attempt[t] + 1
              /\ call'.dispatched = 2
              /\ call'.depth = 2
              /\ status'[t] = "no_attempt"
              /\ finished_on' = finished_on
              /\ stage_status' = stage_status]_vars

\* A retry has just put a Task back to no_attempt, on its second attempt.
C13_Witness ==
    /\ call.dispatched = 2
    /\ call.depth = 2
    /\ status[1] = "no_attempt"
    /\ attempt[1] = 2
    /\ n_failed[1] = 1
    /\ finished_on[1] = None
    /\ stage_status[stage[1]] = "running"

\* A must_succeed Task of Stage s has failed for good.
HasFailedTask(s) ==
    \E u \in stage_tasks(s) : must_succeed[u] /\ status[u] = "failed"

\* C14 as stated: a Stage becomes failed only in a step in which a
\* must_succeed Task of it runs the attempts-exhausted branch, and that
\* branch runs at most once per Stage, also when several of its must_succeed
\* Tasks exhaust their attempts.
C14_Original ==
    [][\A s \in Stages :
          LET marks == \E t \in stage_tasks(s) :
                           must_succeed[t] /\ ReportFailed(t) /\ MarkedFailed'
          IN  /\ (stage_status'[s] = "failed" /\ stage_status[s] # "failed") => marks
              /\ HasFailedTask(s) => ~marks]_vars

\* C15: attempt never decreases; only the retry branch changes it, by exactly
\* 1; and a Task that starts on attempt 1 stays within 1 .. max_attempts.
C15_AttemptBounds ==
    /\ [](\A t \in Tasks : 1 <= attempt[t] /\ attempt[t] <= max_attempts)
    /\ [][\A t \in Tasks :
             \/ attempt'[t] = attempt[t]
             \/ /\ attempt'[t] = attempt[t] + 1
                /\ must_succeed[t]
                /\ attempt[t] < max_attempts
                /\ ReportFailed(t)]_vars

\* A Task on the last of three attempts.
C15_Witness ==
    /\ max_attempts = 3
    /\ attempt[1] = 3
    /\ n_failed[1] = 2
    /\ status[1] = "submitted"

\* C16: successful is true exactly when the status is successful; it becomes
\* true only in a transition to successful, once; and the Stage check of that
\* transition counts the Task itself as successful.
C16_SuccessfulFlag ==
    /\ [](\A t \in Tasks : successful[t] <=> status[t] = "successful")
    /\ [][\A t \in Tasks :
             /\ successful'[t] # successful[t] =>
                    ~successful[t] /\ ReportSuccessful(t)
             /\ (/\ ReportSuccessful(t)
                 /\ \A u \in stage_tasks(stage[t]) \ {t} :
                        successful[u] \/ ~must_succeed[u]) =>
                    stage_status'[stage[t]] = "successful"]_vars

\* The second of two must_succeed Tasks of a Stage has succeeded.
C16_Witness ==
    /\ stage[1] = stage[2]
    /\ must_succeed[1] /\ must_succeed[2]
    /\ successful[1] /\ successful[2]
    /\ call.log # <<>>
    /\ call.log[1].task = 2
    /\ stage_status[stage[1]] = "successful"

\* C17: every transition to failed logs one failure report, whose command,
\* stdout and stderr paths carry the attempt that failed, and the stderr wait
\* of a final failure is for that attempt's file.
C17_FailureReport ==
    [][(status[1] # "failed" /\ Assign(1, "failed")) =>
          LET reports == {i \in DOMAIN call'.log :
                             call'.log[i].msg = "task_failed_printout"}
          IN  /\ Cardinality(reports) = 1
              /\ \A i \in reports :
                    /\ call'.log[i].task = 1
                    /\ call'.log[i].command = <<"command", "_attempt", attempt[1], ".bash">>
                    /\ call'.log[i].stdout = <<"stdout", "_attempt", attempt[1], ".txt">>
                    /\ call'.log[i].stderr = <<"stderr", "_attempt", attempt[1], ".txt">>
              /\ \A i \in DOMAIN call'.waits :
                    call'.waits[i].path = <<"stderr", "_attempt", attempt[1], ".txt">>]_vars

\* A retry whose report names attempt 2 has left the Task on attempt 3.
C17_Witness ==
    /\ attempt[1] = 3
    /\ status[1] = "no_attempt"
    /\ Len(call.log) = 2
    /\ call.log[2].msg = "task_failed_printout"
    /\ call.log[2].stderr = <<"stderr", "_attempt", 2, ".txt">>

\* A read of Task 1's profile, by either caller.
Reads == ReadProfile(1) \/ UpdateFromProfileOutput(1)

\* The report of the attempt Task 1 is on is not there.
Absent == profile_json[1][attempt[1]] = <<>>

\* C12: reading the profile of a no-op Task returns the empty result with no
\* wait_for_file call and no file opened; reading it for a Task that is not a
\* no-op, with nothing cached and no report at the path of its attempt,
\* waits once for that path with the 60 s bound, returns the empty result,
\* raises nothing and caches nothing; and in both cases
\* update_from_profile_output changes no attribute of any Task.
C12_AbsenceIsEmpty ==
    /\ [][(NOOP[1] /\ Reads) =>
             /\ profile_call'.result = <<{}>>
             /\ profile_call'.waits = <<>>
             /\ profile_call'.opened = <<>>
             /\ ~profile_call'.raised]_vars
    /\ [][(~NOOP[1] /\ cache_profile[1] = <<>> /\ Absent /\ Reads) =>
             /\ profile_call'.result = <<{}>>
             /\ ~profile_call'.raised
             /\ profile_call'.opened = <<>>
             /\ profile_call'.waits =
                   <<[path |-> output_profile_path(World, 1),
                      timeout |-> ProfileWait, found |-> FALSE]>>
             /\ cache_profile' = cache_profile]_vars
    /\ [][((NOOP[1] \/ (cache_profile[1] = <<>> /\ Absent))
             /\ UpdateFromProfileOutput(1)) =>
             /\ profile_attrs' = profile_attrs
             /\ taskvars' = taskvars
             /\ cache_profile' = cache_profile]_vars

\* Witness for C12: the failed second attempt of a Task that is not a no-op
\* left no report, and update_from_profile_output timed out on it, while the
\* report of the first attempt is on the filesystem.
C12_Witness ==
    /\ ~NOOP[1]
    /\ status[1] = "failed"
    /\ attempt[1] = 2
    /\ profile_json[1][1] # <<>>
    /\ profile_json[1][2] = <<>>
    /\ profile_call.op = "update"
    /\ profile_call.result = <<{}>>
    /\ Len(profile_call.waits) = 1
    /\ ~profile_call.waits[1].found

\* C18: once a read has found and parsed the report the Task keeps it: every
\* later read returns it with no wait_for_file call and no file opened, and
\* the kept result never changes; a read that finds and parses the report
\* keeps what it returns; a read that times out keeps nothing, and a read
\* with nothing kept waits for the file.
C18_ProfileCached ==
    /\ [][(~NOOP[1] /\ cache_profile[1] # <<>> /\ Reads) =>
             /\ profile_call'.result = cache_profile[1]
             /\ profile_call'.waits = <<>>
             /\ profile_call'.opened = <<>>
             /\ ~profile_call'.raised]_vars
    /\ [][cache_profile[1] # <<>> => cache_profile'[1] = cache_profile[1]]_vars
    /\ [][(~NOOP[1] /\ cache_profile[1] = <<>> /\ Reads) =>
             /\ Len(profile_call'.waits) = 1
             /\ IF ~Absent /\ profile_json[1][attempt[1]][1].ok
                THEN /\ profile_call'.result = <<profile_json[1][attempt[1]][1].json>>
                     /\ cache_profile'[1] = profile_call'.result
                ELSE cache_profile'[1] = <<>>]_vars

\* Witness for C18: a read that opened no file returned the report that an
\* earlier read kept.
C18_Witness ==
    /\ ~NOOP[1]
    /\ profile_json[1][1] # <<>>
    /\ cache_profile[1] = <<profile_json[1][1][1].json>>
    /\ profile_call.op = "profile"
    /\ profile_call.waits = <<>>
    /\ profile_call.opened = <<>>
    /\ profile_call.result = cache_profile[1]

\* C19 (as stated): a read of the profile of a Task that is not a no-op
\* returns the content of the report at the path of the attempt the Task is
\* on, whenever that report is there and well formed.
C19_Original ==
    [][(~NOOP[1] /\ ~Absent /\ profile_json[1][attempt[1]][1].ok /\ Reads) =>
          profile_call'.result = <<profile_json[1][attempt[1]][1].json>>]_vars

\* successful, or failed with finished_on set.
Finished(t) ==
    \/ status[t] = "successful"
    \/ status[t] = "failed" /\ finished_on[t] # None

\* C20: in a fair environment every Task ends, and stays, successful or
\* failed with finished_on set, on an attempt that is at most max_attempts
\* and after at most max_attempts failures; and every Stage with a
\* must_succeed Task at some time has status successful or failed (the
\* Tasks are those of one Stage, so "at some time" is one time for all).
C20_RetryTerminates ==
    /\ <>[](\A t \in Tasks :
               /\ Finished(t)
               /\ attempt[t] <= max_attempts
               /\ n_failed[t] <= max_attempts)
    /\ <>(\A s \in Stages :
             (\E t \in stage_tasks(s) : must_succeed[t]) =>
                 stage_status[s] \in {"successful", "failed"})

\* Witness for C20: a must_succeed Task has used all of its several attempts
\* and is failed for good, every other Task has ended too, and its Stage is
\* failed.
C20_Witness ==
    /\ max_attempts > 1
    /\ must_succeed[1]
    /\ status[1] = "failed"
    /\ n_failed[1] = max_attempts
    /\ attempt[1] = max_attempts
    /\ \A t \in Tasks : Finished(t)
    /\ stage_status[stage[1]] = "failed"

====
